---- MODULE Spec2Model ----
(***************************************************************************)
(* A model of attr._funcs (src/src/attr/_funcs.py): asdict, fromdict, has  *)
(* and assoc.  The functions are pure tree walks, so every behaviour is    *)
(* one call: Init draws the call's arguments from bounded sets and one     *)
(* action per function applies it and records the outcome.                 *)
(***************************************************************************)
EXTENDS Integers, Sequences, FiniteSets, TLC

VARIABLES pc, op, args, heap, result

vars == <<pc, op, args, heap, result>>

\* ------------------------------------------------------------------ bounds

\* Longest list/tuple/set/dict drawn as an input.
MaxLen == 2
\* Integers drawn as field values are 1..MaxInt.
MaxInt == 2

\* ------------------------------------------------------------------ values

\* A Python value.  tag is the name of the value's class (v.__class__);
\* name is a str's text, n an int's value, items the elements of a
\* list/tuple/set (in iteration order), the key/value pairs of a mapping
\* (in insertion order) or the attribute values of an attrs instance (in
\* the order of the class's fields).
Val(tag, name, n, items) == [tag |-> tag, name |-> name, n |-> n, items |-> items]

NoneV == Val("NoneType", "", 0, <<>>)
IntV(i) == Val("int", "", i, <<>>)
StrV(s) == Val("str", s, 0, <<>>)
ListV(es) == Val("list", "", 0, es)
TupleV(es) == Val("tuple", "", 0, es)
SetV(es) == Val("set", "", 0, es)
Pair(k, v) == Val("pair", "", 0, <<k, v>>)
DictV(pairs) == Val("dict", "", 0, pairs)
BoolV(b) == Val("bool", "", IF b THEN 1 ELSE 0, <<>>)
InstV(cls, vals) == Val(cls, "", 0, vals)

\* The outcome of a call: a returned value or a raised exception.
NoExc == [type |-> "", msg |-> ""]
Ok(v) == [ok |-> TRUE, val |-> v, exc |-> NoExc]
Raise(type, msg) == [ok |-> FALSE, val |-> NoneV, exc |-> [type |-> type, msg |-> msg]]

\* ------------------------------------------------------------------ types

\* A type expression as fromdict inspects it.  kind "class" is a plain
\* class (attrs-decorated or builtin) called name; "generic" is a typing
\* generic (List, Set, Tuple, Dict) whose __name__ is name; "union" is
\* typing.Union with __union_params__ = params; "Any" is typing.Any;
\* "untyped" stands for a field declared without a type (a.type is None).
\* parameterized is hasattr(typ, '__parameters__'), params the parameters.
Typ(kind, name, params, parameterized) ==
    [kind |-> kind, name |-> name, params |-> params, parameterized |-> parameterized]

Untyped == Typ("untyped", "", <<>>, FALSE)
ClassT(c) == Typ("class", c, <<>>, FALSE)
AnyT == Typ("Any", "Any", <<>>, FALSE)
NoneTypeT == ClassT("NoneType")
UnionT(ps) == Typ("union", "Union", ps, FALSE)
OptionalT(t) == UnionT(<<t, NoneTypeT>>)
ListT(t) == Typ("generic", "List", <<t>>, TRUE)
SetT(t) == Typ("generic", "Set", <<t>>, TRUE)
TupleT(t) == Typ("generic", "Tuple", <<t>>, TRUE)
DictT(k, v) == Typ("generic", "Dict", <<k, v>>, TRUE)

\* ------------------------------------------------------------------ classes

Attribute(name, type) == [name |-> name, type |-> type]

XY(tx, ty) == <<Attribute("x", tx), Attribute("y", ty)>>

\* The attrs-decorated classes of the model with their __attrs_attrs__, after
\* the classes of tests/test_funcs.py: C and B (two untyped fields), E (no
\* field), Fz (frozen), classes whose fields carry declared types, and VT and
\* VV, whose constructors validate field x (InitErrors below).
ClassTable ==
    [C    |-> XY(Untyped, Untyped),
     B    |-> XY(Untyped, Untyped),
     E    |-> <<>>,
     Fz   |-> XY(Untyped, Untyped),
     D    |-> XY(ClassT("C"), ClassT("C")),
     DOpt |-> XY(OptionalT(ClassT("C")), UnionT(<<NoneTypeT, ClassT("C")>>)),
     DOpI |-> XY(OptionalT(ClassT("int")), OptionalT(ListT(ClassT("C")))),
     DLst |-> XY(ListT(ClassT("C")), SetT(ClassT("C"))),
     DTup |-> XY(TupleT(ClassT("C")), ListT(OptionalT(ClassT("C")))),
     DRaw |-> XY(ClassT("list"), ClassT("set")),
     DRw2 |-> XY(ClassT("tuple"), ClassT("dict")),
     DDct |-> XY(DictT(ClassT("str"), ClassT("C")), DictT(ClassT("str"), ClassT("int"))),
     DUni |-> XY(UnionT(<<ClassT("B"), ClassT("C")>>), UnionT(<<ClassT("C"), ClassT("B")>>)),
     DUnS |-> XY(UnionT(<<ClassT("str"), ClassT("int")>>),
                 UnionT(<<ClassT("B"), ClassT("C"), NoneTypeT>>)),
     DMix |-> XY(ClassT("int"), ClassT("E")),
     DD   |-> XY(ClassT("D"), Untyped),
     VT   |-> XY(Untyped, Untyped),
     VV   |-> XY(Untyped, Untyped),
     DV   |-> XY(ClassT("VT"), ClassT("VV"))]

AttrsClasses == DOMAIN ClassTable

\* getattr(cls, "__attrs_attrs__", None): the slot, or None for a class
\* without it.
getattr_attrs_attrs(cls) ==
    IF cls \in AttrsClasses
    THEN [isNone |-> FALSE, attrs |-> ClassTable[cls]]
    ELSE [isNone |-> TRUE, attrs |-> <<>>]

\* has with a truthiness test of the slot in place of `is not None`.
has_truthy(cls) == getattr_attrs_attrs(cls).attrs # <<>>

has(cls) == ~getattr_attrs_attrs(cls).isNone

fields(cls) == getattr_attrs_attrs(cls).attrs

RECURSIVE IndexOf(_, _, _)
IndexOf(attrs, name, i) ==
    IF i > Len(attrs) THEN 0
    ELSE IF attrs[i].name = name THEN i
    ELSE IndexOf(attrs, name, i + 1)

\* getattr(inst, name) for a field of inst's class.
getattr(inst, name) == inst.items[IndexOf(fields(inst.tag), name, 1)]

\* ------------------------------------------------------------------ builtins

isinstance(v, classes) == v.tag \in classes

IsMapping(v) == isinstance(v, {"dict", "OrderedDict"})

\* hash(v) succeeds: lists, sets and mappings are unhashable; a tuple or an
\* attrs instance hashes its elements.
RECURSIVE Hashable(_)
Hashable(v) ==
    IF v.tag \in {"list", "set", "dict", "OrderedDict"} THEN FALSE
    ELSE \A i \in 1..Len(v.items) : Hashable(v.items[i])

RECURSIVE Dedup(_, _)
Dedup(seq, acc) ==
    IF seq = <<>> THEN acc
    ELSE IF \E i \in 1..Len(acc) : acc[i] = Head(seq)
         THEN Dedup(Tail(seq), acc)
         ELSE Dedup(Tail(seq), Append(acc, Head(seq)))

\* list(es), tuple(es), set(es) for a sequence es of values.
mk(kind, es) ==
    IF kind = "set"
    THEN IF \A i \in 1..Len(es) : Hashable(es[i])
         THEN Ok(SetV(Dedup(es, <<>>)))
         ELSE Raise("TypeError", "unhashable type")
    ELSE Ok(Val(kind, "", 0, es))

RECURSIVE KeyIndex(_, _, _)
KeyIndex(pairs, k, i) ==
    IF i > Len(pairs) THEN 0
    ELSE IF pairs[i].items[1] = k THEN i
    ELSE KeyIndex(pairs, k, i + 1)

\* setitem that puts a new key first instead of last.
setitem_front(pairs, k, v) ==
    LET i == KeyIndex(pairs, k, 1)
    IN IF i = 0 THEN <<Pair(k, v)>> \o pairs
       ELSE [pairs EXCEPT ![i] = Pair(k, v)]

\* rv[k] = v on the pairs of a mapping: an existing key keeps its place.
setitem(pairs, k, v) ==
    LET i == KeyIndex(pairs, k, 1)
    IN IF i = 0 THEN Append(pairs, Pair(k, v))
       ELSE [pairs EXCEPT ![i] = Pair(k, v)]

\* ------------------------------------------------------------------ asdict

\* The filter callbacks of the model: None (no filter), three lambdas, and
\* two callables that raise when handed the value None and keep every other
\* field.
RaisingFilters == {"raise_TypeError", "raise_ValueError"}

Filters == {"None", "not_y", "not_x", "not_none"} \cup RaisingFilters

\* The call filter(a, v) of line 44 raises, and the exception it raises.
FilterRaises(filter, a, v) == filter \in RaisingFilters /\ v = NoneV

FilterExc(filter) ==
    [type |-> IF filter = "raise_TypeError" THEN "TypeError" ELSE "ValueError",
     msg |-> "raised by filter"]

\* filter(a, v)
CallFilter(filter, a, v) ==
    CASE filter = "not_y" -> a.name # "y"
      [] filter = "not_x" -> a.name # "x"
      [] filter = "not_none" -> v # NoneV
      [] OTHER -> TRUE

RECURSIVE asdict(_, _, _, _, _)
RECURSIVE asdict_attrs(_, _, _, _, _, _, _, _)
RECURSIVE asdict_elems(_, _, _, _, _)
RECURSIVE asdict_items(_, _, _, _)

\* The list comprehension of lines 52-57 from element i on.
asdict_elems(es, i, acc, filter, dict_factory) ==
    IF i > Len(es) THEN [ok |-> TRUE, seq |-> acc, exc |-> NoExc]
    ELSE LET r == IF has(es[i].tag)
                  THEN asdict(es[i], TRUE, filter, dict_factory, FALSE)
                  ELSE Ok(es[i])
         IN IF ~r.ok THEN [ok |-> FALSE, seq |-> <<>>, exc |-> r.exc]
            ELSE asdict_elems(es, i + 1, Append(acc, r.val), filter, dict_factory)

\* df(generator) of lines 60-63 from pair i on: the nested calls pass
\* dict_factory only; df hashes each key as it stores the pair.
asdict_items(pairs, i, acc, df) ==
    IF i > Len(pairs) THEN Ok(Val(df, "", 0, acc))
    ELSE LET kk == pairs[i].items[1]
             vv == pairs[i].items[2]
             k == IF has(kk.tag) THEN asdict(kk, TRUE, "None", df, FALSE) ELSE Ok(kk)
             v == IF has(vv.tag) THEN asdict(vv, TRUE, "None", df, FALSE) ELSE Ok(vv)
         IN IF ~k.ok THEN k
            ELSE IF ~v.ok THEN v
            ELSE IF ~Hashable(k.val) THEN Raise("TypeError", "unhashable type")
            ELSE asdict_items(pairs, i + 1, setitem(acc, k.val, v.val), df)

\* cf without retain_collection_types: always list.
cf_list(v, retain_collection_types) == "list"

\* Line 51: the class of the container built for the collection v.
cf(v, retain_collection_types) == IF retain_collection_types THEN v.tag ELSE "list"

\* asdict_value without the `recurse is True` test of line 46.
asdict_value_always_recurse(v, recurse, filter, dict_factory, retain_collection_types) ==
    IF has(v.tag)
    THEN asdict(v, TRUE, filter, dict_factory, FALSE)
    ELSE IF isinstance(v, {"tuple", "list", "set"})
    THEN LET es == asdict_elems(v.items, 1, <<>>, filter, dict_factory)
         IN IF ~es.ok THEN Raise(es.exc.type, es.exc.msg)
            ELSE mk(cf(v, retain_collection_types), es.seq)
    ELSE IF IsMapping(v)
    THEN asdict_items(v.items, 1, <<>>, dict_factory)
    ELSE Ok(v)

\* asdict_value passing retain_collection_types on to the nested call of
\* lines 48-49.
asdict_value_forward_retain(v, recurse, filter, dict_factory, retain_collection_types) ==
    IF recurse
    THEN IF has(v.tag)
         THEN asdict(v, TRUE, filter, dict_factory, retain_collection_types)
         ELSE IF isinstance(v, {"tuple", "list", "set"})
         THEN LET es == asdict_elems(v.items, 1, <<>>, filter, dict_factory)
              IN IF ~es.ok THEN Raise(es.exc.type, es.exc.msg)
                 ELSE mk(cf(v, retain_collection_types), es.seq)
         ELSE IF IsMapping(v)
         THEN asdict_items(v.items, 1, <<>>, dict_factory)
         ELSE Ok(v)
    ELSE Ok(v)

\* Lines 46-67: the value stored for a field that the filter keeps.
asdict_value(v, recurse, filter, dict_factory, retain_collection_types) ==
    IF recurse
    THEN IF has(v.tag)
         THEN asdict(v, TRUE, filter, dict_factory, FALSE)
         ELSE IF isinstance(v, {"tuple", "list", "set"})
         THEN LET es == asdict_elems(v.items, 1, <<>>, filter, dict_factory)
              IN IF ~es.ok THEN Raise(es.exc.type, es.exc.msg)
                 ELSE mk(cf(v, retain_collection_types), es.seq)
         ELSE IF IsMapping(v)
         THEN asdict_items(v.items, 1, <<>>, dict_factory)
         ELSE Ok(v)
    ELSE Ok(v)

\* The loop of lines 42-67 from field i on, rv being the mapping so far.
asdict_attrs(inst, attrs, i, rv, recurse, filter, dict_factory, retain_collection_types) ==
    IF i > Len(attrs) THEN Ok(Val(dict_factory, "", 0, rv))
    ELSE LET a == attrs[i]
             v == getattr(inst, a.name)
         IN IF filter # "None" /\ FilterRaises(filter, a, v)
            THEN Raise(FilterExc(filter).type, FilterExc(filter).msg)
            ELSE IF filter # "None" /\ ~CallFilter(filter, a, v)
            THEN asdict_attrs(inst, attrs, i + 1, rv, recurse, filter,
                              dict_factory, retain_collection_types)
            ELSE LET r == asdict_value(v, recurse, filter, dict_factory,
                                       retain_collection_types)
                 IN IF ~r.ok THEN r
                    ELSE asdict_attrs(inst, attrs, i + 1,
                                      setitem(rv, StrV(a.name), r.val),
                                      recurse, filter, dict_factory,
                                      retain_collection_types)

asdict(inst, recurse, filter, dict_factory, retain_collection_types) ==
    asdict_attrs(inst, fields(inst.tag), 1, <<>>, recurse, filter,
                 dict_factory, retain_collection_types)

\* ------------------------------------------------------------------ fromdict

\* '.'.join(context)
RECURSIVE Join(_)
Join(context) ==
    IF context = <<>> THEN ""
    ELSE IF Len(context) = 1 THEN context[1]
    ELSE context[1] \o "." \o Join(Tail(context))

\* str(k)
Str(k) ==
    CASE k.tag = "str" -> k.name
      [] k.tag = "int" -> ToString(k.n)
      [] k.tag = "NoneType" -> "None"
      [] OTHER -> "<" \o k.tag \o ">"

\* The rename callbacks of the model: the default (lambda a: a) and one
\* that prefixes the name.
Renames == {"identity", "prefix"}

\* rename(a.name)
CallRename(rename, name) == IF rename = "prefix" THEN "k_" \o name ELSE name

\* The union_discriminator callbacks of the model: the default
\* (lambda v, t: Any) and by_type of tests/test_funcs.py, which reads the
\* value's "type" key.
RaisingDiscriminators == {"raise_TypeError", "raise_ValueError"}

Discriminators == {"default", "by_type"} \cup RaisingDiscriminators

\* The exception a raising union_discriminator raises.
DiscriminatorExc(union_discriminator) ==
    [type |-> IF union_discriminator = "raise_TypeError" THEN "TypeError" ELSE "ValueError",
     msg |-> "raised by union_discriminator"]

\* `key in dct`
Contains(dct, key) ==
    CASE IsMapping(dct) -> [ok |-> TRUE, found |-> KeyIndex(dct.items, key, 1) # 0, exc |-> NoExc]
      [] dct.tag \in {"list", "tuple", "set"} ->
            [ok |-> TRUE, found |-> \E i \in 1..Len(dct.items) : dct.items[i] = key, exc |-> NoExc]
      [] dct.tag = "str" -> [ok |-> TRUE, found |-> dct = key, exc |-> NoExc]
      [] OTHER -> [ok |-> FALSE, found |-> FALSE,
                   exc |-> [type |-> "TypeError", msg |-> "argument is not iterable"]]

\* dct[key]
GetItem(dct, key) ==
    IF IsMapping(dct)
    THEN LET i == KeyIndex(dct.items, key, 1)
         IN IF i = 0 THEN Raise("KeyError", Str(key)) ELSE Ok(dct.items[i].items[2])
    ELSE Raise("TypeError", "indices must be integers")

\* dct.get(key)
Get(dct, key) ==
    IF IsMapping(dct)
    THEN LET i == KeyIndex(dct.items, key, 1)
         IN IF i = 0 THEN Ok(NoneV) ELSE Ok(dct.items[i].items[2])
    ELSE Raise("AttributeError", "object has no attribute 'get'")

\* The elements `for v in a` yields: a mapping yields its keys, a str
\* (one character long in this model) its characters.
Iter(a) ==
    CASE a.tag \in {"list", "tuple", "set"} -> [ok |-> TRUE, seq |-> a.items, exc |-> NoExc]
      [] IsMapping(a) ->
            [ok |-> TRUE, seq |-> [i \in 1..Len(a.items) |-> a.items[i].items[1]], exc |-> NoExc]
      [] a.tag = "str" -> [ok |-> TRUE, seq |-> <<a>>, exc |-> NoExc]
      [] OTHER -> [ok |-> FALSE, seq |-> <<>>,
                   exc |-> [type |-> "TypeError", msg |-> "object is not iterable"]]

\* union_discriminator(a, typ): the type to deserialize a as.
CallDiscriminator(union_discriminator, a, typ) ==
    IF union_discriminator \in RaisingDiscriminators
    THEN [ok |-> FALSE, typ |-> AnyT, exc |-> DiscriminatorExc(union_discriminator)]
    ELSE IF union_discriminator = "by_type"
    THEN LET t == GetItem(a, StrV("type"))
         IN IF ~t.ok THEN [ok |-> FALSE, typ |-> AnyT, exc |-> t.exc]
            ELSE [ok |-> TRUE, exc |-> NoExc,
                  typ |-> IF t.val = StrV("B") THEN ClassT("B") ELSE ClassT("C")]
    ELSE [ok |-> TRUE, typ |-> AnyT, exc |-> NoExc]

\* issubclass(typ, Union), issubclass(typ, Dict), issubclass(typ, Iterable)
\* as the typing module answers them; typing.Any is a subclass of each.
issubclass(typ, base) ==
    CASE typ.kind = "Any" -> TRUE
      [] base = "Union" -> typ.kind = "union"
      [] base = "Dict" ->
            \/ typ.kind = "generic" /\ typ.name = "Dict"
            \/ typ.kind = "class" /\ typ.name \in {"dict", "OrderedDict"}
      [] base = "Iterable" ->
            \/ typ.kind = "generic"
            \/ typ.kind = "class" /\ typ.name \in {"list", "tuple", "set", "str", "dict", "OrderedDict"}
      [] OTHER -> FALSE

\* has(typ) for a type expression: only a class can carry the slot.
has_type(typ) == typ.kind = "class" /\ has(typ.name)

_is_optional(typ) ==
    IF issubclass(typ, "Union") /\ typ # AnyT
    THEN \E i \in 1..Len(typ.params) : typ.params[i] = NoneTypeT
    ELSE FALSE

\* Union[tuple(ps)]: a union of one alternative is that alternative.
Union(ps) == IF Len(ps) = 1 THEN ps[1] ELSE UnionT(ps)

\* mk_of without the tests of lines 134-137.
mk_of_list(typ) == "list"

\* The container constructor lines 133-139 choose from typ.__name__.
mk_of(typ) ==
    IF typ.name = "Tuple" \/ typ.name = "tuple" THEN "tuple"
    ELSE IF typ.name = "Set" \/ typ.name = "set" THEN "set"
    ELSE "list"

\* The classes whose constructor runs a validator on field x, with the kind
\* of error the validator raises for a value that is neither an int nor None.
InitErrors == [VT |-> "TypeError", VV |-> "ValueError"]

init_rejects(cls, x) == cls \in DOMAIN InitErrors /\ x.tag \notin {"int", "NoneType"}

InitExc(cls) == [type |-> InitErrors[cls], msg |-> "x must be an int"]

\* cls(**cons): the attrs-generated constructor stores each keyword
\* argument in its field, after the validators of the class have run.
construct(cls, cons) ==
    IF init_rejects(cls, cons[KeyIndex(cons, StrV("x"), 1)].items[2])
    THEN Raise(InitExc(cls).type, InitExc(cls).msg)
    ELSE
    Ok(InstV(cls, [i \in 1..Len(fields(cls)) |->
                     cons[KeyIndex(cons, StrV(fields(cls)[i].name), 1)].items[2]]))

\* Lines 151-158: a TypeError raised under deserialize_val is raised again
\* with the value, the type and the path; any other outcome passes.
reraise(r, context, key_name) ==
    IF ~r.ok /\ r.exc.type = "TypeError"
    THEN Raise("TypeError",
               "Unable to deserialize at " \o Join(context) \o "." \o key_name
                   \o " because " \o r.exc.msg)
    ELSE r

RECURSIVE _fromdict(_, _, _, _)
RECURSIVE fromdict_attrs(_, _, _, _, _, _)
RECURSIVE deserialize_val(_, _, _, _, _, _)
RECURSIVE deserialize_elems(_, _, _, _, _, _, _, _)
RECURSIVE deserialize_items(_, _, _, _, _, _, _, _)

\* Lines 142-143: the list comprehension from element i on.
deserialize_elems(es, i, acc, gen, name, context, key_name, o) ==
    IF i > Len(es) THEN [ok |-> TRUE, seq |-> acc, exc |-> NoExc]
    ELSE LET r == deserialize_val(es[i], gen, name \o "[]", context, key_name, o)
         IN IF ~r.ok THEN [ok |-> FALSE, seq |-> <<>>, exc |-> r.exc]
            ELSE deserialize_elems(es, i + 1, Append(acc, r.val), gen, name,
                                   context, key_name, o)

\* Lines 128-130: the dict comprehension from pair i on.  When both the
\* key and the value of a pair fail, the key's error is the one reported.
deserialize_items(pairs, i, acc, typ, name, context, key_name, o) ==
    IF i > Len(pairs) THEN Ok(DictV(acc))
    ELSE LET k == pairs[i].items[1]
             v == pairs[i].items[2]
             dk == deserialize_val(k, typ.params[1], name, context, key_name, o)
             dv == deserialize_val(v, typ.params[2], name \o Str(k), context, key_name, o)
         IN IF ~dk.ok THEN dk
            ELSE IF ~dv.ok THEN dv
            ELSE IF ~Hashable(dk.val) THEN Raise("TypeError", "unhashable type")
            ELSE deserialize_items(pairs, i + 1, setitem(acc, dk.val, dv.val), typ,
                                   name, context, key_name, o)

\* Lines 112-123: typ is an optional.
deserialize_optional(a, typ, name, context, key_name, o) ==
    IF a = NoneV THEN Ok(NoneV)
    ELSE IF Len(typ.params) > 2
    THEN deserialize_val(a, Union(SelectSeq(typ.params, LAMBDA t : t # NoneTypeT)),
                         name, context, key_name, o)
    ELSE deserialize_val(a, typ.params[1], name, context, key_name, o)

\* Lines 125-131: typ is a mapping type.
deserialize_dict(a, typ, name, context, key_name, o) ==
    IF typ.parameterized
    THEN IF IsMapping(a)
         THEN deserialize_items(a.items, 1, <<>>, typ, name, context, key_name, o)
         ELSE Raise("AttributeError", "object has no attribute 'items'")
    ELSE Ok(a)

\* Lines 140-145: the container mk builds from a for the type typ.
deserialize_iterable(a, typ, name, context, key_name, o) ==
    LET it == Iter(a)
    IN IF ~it.ok THEN Raise(it.exc.type, it.exc.msg)
       ELSE IF typ.parameterized
       THEN LET es == deserialize_elems(it.seq, 1, <<>>, typ.params[1], name,
                                        context, key_name, o)
            IN IF ~es.ok THEN Raise(es.exc.type, es.exc.msg)
               ELSE mk(mk_of(typ), es.seq)
       ELSE mk(mk_of(typ), it.seq)

\* Lines 146-148 without the call of the discriminator.
deserialize_union_passthrough(a, typ, name, context, key_name, o) == Ok(a)

\* Lines 147-148: typ is a union that is no optional.
deserialize_union(a, typ, name, context, key_name, o) ==
    LET actual_type == CallDiscriminator(o.union_discriminator, a, typ)
    IN IF ~actual_type.ok THEN Raise(actual_type.exc.type, actual_type.exc.msg)
       ELSE deserialize_val(a, actual_type.typ, name, context, key_name, o)

\* The try block of lines 109-150.
deserialize_try(a, typ, name, context, key_name, o) ==
    IF has_type(typ)
    THEN _fromdict(typ.name, a, context \o <<name>>, o)
    ELSE IF _is_optional(typ)
    THEN deserialize_optional(a, typ, name, context, key_name, o)
    ELSE IF issubclass(typ, "Dict")
    THEN deserialize_dict(a, typ, name, context, key_name, o)
    ELSE IF issubclass(typ, "Iterable") /\ typ # ClassT("str")
    THEN deserialize_iterable(a, typ, name, context, key_name, o)
    ELSE IF issubclass(typ, "Union")
    THEN deserialize_union(a, typ, name, context, key_name, o)
    ELSE Ok(a)

\* Lines 107-158; context and key_name are those of the enclosing _fromdict.
deserialize_val(a, typ, name, context, key_name, o) ==
    reraise(deserialize_try(a, typ, name, context, key_name, o), context, key_name)

\* Lines 164-170: the raw value of the field whose key is key_name.
lookup(dct, key_name, context, o) ==
    IF o.ignore_missing
    THEN Get(dct, StrV(key_name))
    ELSE LET c == Contains(dct, StrV(key_name))
         IN IF ~c.ok THEN Raise(c.exc.type, c.exc.msg)
            ELSE IF c.found THEN GetItem(dct, StrV(key_name))
            ELSE Raise("KeyError", Join(context) \o "." \o key_name)

\* The loop of lines 163-175 from field i on, then the constructor call.
fromdict_attrs(cls, dct, context, i, cons, o) ==
    IF i > Len(fields(cls)) THEN construct(cls, cons)
    ELSE LET a == fields(cls)[i]
             key_name == CallRename(o.rename, a.name)
             val == lookup(dct, key_name, context, o)
         IN IF ~val.ok THEN val
            ELSE LET r == IF o.recurse /\ a.type # Untyped
                          THEN deserialize_val(val.val, a.type, key_name, context, key_name, o)
                          ELSE val
                 IN IF ~r.ok THEN r
                    ELSE fromdict_attrs(cls, dct, context, i + 1,
                                        setitem(cons, StrV(a.name), r.val), o)

_fromdict(cls, dct, context, o) == fromdict_attrs(cls, dct, context, 1, <<>>, o)

fromdict(cls, dct, recurse, ignore_missing, rename, union_discriminator) ==
    _fromdict(cls, dct, <<>>,
              [recurse |-> recurse, ignore_missing |-> ignore_missing,
               rename |-> rename, union_discriminator |-> union_discriminator])

\* ------------------------------------------------------------------ assoc

\* A reference to the object at heap[id].
RefV(id) == Val("ref", "", id, <<>>)

\* The classes declared with frozen=True.
Frozen == {"Fz"}

\* copy that returns the object itself instead of a new one.
copy_alias(h, inst) == [heap |-> h, new |-> inst]

\* copy.copy(inst): a new object of the same class holding the same
\* attribute values; the heap with it, and its id.
copy(h, inst) == [heap |-> Append(h, h[inst]), new |-> Len(h) + 1]

\* _obj_setattr(obj, k, v): object.__setattr__, which a frozen class's own
\* __setattr__ does not intercept.
_obj_setattr(h, obj, k, v) ==
    [h EXCEPT ![obj].items[IndexOf(fields(h[obj].tag), k, 1)] = v]

\* Lines 207-215 from change i on; changes is the keyword dict in its
\* iteration order.
RECURSIVE assoc_changes(_, _, _, _)
assoc_changes(h, new, changes, i) ==
    IF i > Len(changes) THEN [heap |-> h, out |-> Ok(RefV(new))]
    ELSE LET k == changes[i][1]
             v == changes[i][2]
         IN IF IndexOf(fields(h[new].tag), k, 1) = 0
            THEN [heap |-> h,
                  out |-> Raise("ValueError",
                                k \o " is not an attrs attribute on " \o h[new].tag \o ".")]
            ELSE assoc_changes(_obj_setattr(h, new, k, v), new, changes, i + 1)

assoc(h, inst, changes) ==
    LET c == copy(h, inst)
    IN assoc_changes(c.heap, c.new, changes, 1)

\* ------------------------------------------------------------------ inputs

Ints == {IntV(i) : i \in 1..MaxInt}
Atoms == {NoneV} \cup Ints

RECURSIVE SeqsUpTo(_, _)
SeqsUpTo(S, n) ==
    IF n = 0 THEN {<<>>}
    ELSE LET shorter == SeqsUpTo(S, n - 1)
         IN shorter \cup {Append(s, e) : s \in {t \in shorter : Len(t) = n - 1}, e \in S}

NoDup(s) == \A i, j \in 1..Len(s) : i # j => s[i] # s[j]

C12 == InstV("C", <<IntV(1), IntV(2)>>)

\* Instances held inside other values.
InnerInsts ==
    {C12, InstV("C", <<NoneV, IntV(1)>>), InstV("E", <<>>),
     InstV("C", <<IntV(1), TupleV(<<IntV(1)>>)>>),
     InstV("C", <<IntV(1), SetV(<<IntV(1)>>)>>)}

\* An instance holding a tuple.
CT1 == InstV("C", <<IntV(1), TupleV(<<IntV(1)>>)>>)

ElemVals == {IntV(1), StrV("a"), C12, CT1}

Collections ==
    {Val(kind, "", 0, es) : kind \in {"list", "tuple"}, es \in SeqsUpTo(ElemVals, MaxLen)}
    \cup {SetV(es) : es \in {s \in SeqsUpTo(ElemVals, MaxLen) : NoDup(s)}}

KeyVals == {StrV("a"), IntV(1), C12}

Mappings ==
    {Val(df, "", 0, ps) :
        df \in {"dict"},
        ps \in {s \in SeqsUpTo({Pair(k, v) : k \in KeyVals, v \in {IntV(1), C12}}, MaxLen) :
                   \A i, j \in 1..Len(s) : i # j => s[i].items[1] # s[j].items[1]}}

FieldVals == Atoms \cup InnerInsts \cup Collections \cup Mappings

\* The instances asdict is applied to.
AsdictInsts ==
    {InstV("C", <<x, y>>) : x \in {IntV(1), NoneV, C12}, y \in FieldVals}
    \cup {InstV("E", <<>>)}
    \cup {InstV("D", <<C12, y>>) : y \in {C12, NoneV}}

AsdictArgs(inst) ==
    [inst : {inst}, recurse : BOOLEAN, filter : Filters,
     dict_factory : {"dict", "OrderedDict"}, retain_collection_types : BOOLEAN]

\* The raw values a source mapping holds.
RawC == DictV(<<Pair(StrV("x"), IntV(1)), Pair(StrV("y"), IntV(2))>>)
RawB == DictV(<<Pair(StrV("type"), StrV("B")), Pair(StrV("x"), IntV(1)), Pair(StrV("y"), IntV(2))>>)
RawCt == DictV(<<Pair(StrV("type"), StrV("C")), Pair(StrV("x"), IntV(2)), Pair(StrV("y"), NoneV)>>)
RawD == DictV(<<Pair(StrV("x"), RawC), Pair(StrV("y"), RawC)>>)

RawElems == {RawC, NoneV, IntV(1)}

RawVals ==
    {NoneV, IntV(1), StrV("a"), RawC, RawB, RawCt, RawD, DictV(<<>>),
     DictV(<<Pair(StrV("x"), IntV(1))>>),
     DictV(<<Pair(StrV("a"), RawC)>>), DictV(<<Pair(StrV("a"), IntV(1))>>),
     TupleV(<<IntV(1), IntV(1)>>), SetV(<<IntV(1)>>)}
    \cup {ListV(es) : es \in SeqsUpTo(RawElems, MaxLen)}

\* A key the source mapping does not hold.
Missing == Val("missing", "", 0, <<>>)

SimpleRaw == {Missing, NoneV, RawC, RawCt, ListV(<<RawC>>), DictV(<<Pair(StrV("a"), RawC)>>)}

\* The source mapping holding x and y under the keys k("x") and k("y").
SourceDict(rename, x, y) ==
    DictV(SelectSeq(<<Pair(StrV(CallRename(rename, "x")), x),
                      Pair(StrV(CallRename(rename, "y")), y)>>,
                    LAMBDA p : p.items[2] # Missing))

FromdictClasses == AttrsClasses \ {"B", "Fz"}

FromdictArgs(x, y) ==
    {[cls |-> cls, dct |-> SourceDict(rename, x, y), recurse |-> recurse,
      ignore_missing |-> ignore_missing, rename |-> rename,
      union_discriminator |-> union_discriminator] :
        cls \in FromdictClasses, recurse \in BOOLEAN, ignore_missing \in BOOLEAN,
        rename \in Renames, union_discriminator \in Discriminators}

\* The instances assoc is applied to, and the keyword changes.
AssocInsts ==
    {InstV(cls, <<x, y>>) : cls \in {"C", "Fz"}, x \in Atoms, y \in Atoms}
    \cup {InstV("E", <<>>)}

ChangeNames == {"x", "y", "zzzz"}

AssocChanges ==
    {s \in SeqsUpTo({<<k, v>> : k \in ChangeNames, v \in Atoms}, MaxLen) :
        \A i, j \in 1..Len(s) : i # j => s[i][1] # s[j][1]}

\* The classes has is applied to: the attrs classes, and classes without
\* __attrs_attrs__ such as object (test_negative).
PlainClasses == {"object", "int", "str", "list", "tuple", "set", "dict", "NoneType"}

HasClasses == AttrsClasses \cup PlainClasses

\* ------------------------------------------------------------------ actions

Pending == Raise("", "pending")

Init ==
    /\ pc = "call"
    /\ result = Pending
    /\ \/ /\ op = "asdict" /\ heap = <<>>
          /\ \E inst \in AsdictInsts : args \in AsdictArgs(inst)
       \/ /\ op = "fromdict" /\ heap = <<>>
          /\ \E x \in RawVals \cup {Missing}, y \in RawVals \cup {Missing} :
                /\ x \in SimpleRaw \/ y \in SimpleRaw
                /\ args \in FromdictArgs(x, y)
       \/ /\ op = "assoc"
          /\ \E inst \in AssocInsts :
                /\ heap = <<inst>>
                /\ args \in [inst : {1}, changes : AssocChanges]
       \/ /\ op = "has"
          /\ \E inst \in AssocInsts : heap = <<inst>>
          /\ args \in [cls : HasClasses]

Asdict ==
    /\ pc = "call" /\ op = "asdict"
    /\ result' = asdict(args.inst, args.recurse, args.filter, args.dict_factory,
                        args.retain_collection_types)
    /\ pc' = "done"
    /\ UNCHANGED <<op, args, heap>>

Fromdict ==
    /\ pc = "call" /\ op = "fromdict"
    /\ result' = fromdict(args.cls, args.dct, args.recurse, args.ignore_missing,
                          args.rename, args.union_discriminator)
    /\ pc' = "done"
    /\ UNCHANGED <<op, args, heap>>

Assoc ==
    /\ pc = "call" /\ op = "assoc"
    /\ LET r == assoc(heap, args.inst, args.changes)
       IN heap' = r.heap /\ result' = r.out
    /\ pc' = "done"
    /\ UNCHANGED <<op, args>>

Has ==
    /\ pc = "call" /\ op = "has"
    /\ result' = Ok(BoolV(has(args.cls)))
    /\ pc' = "done"
    /\ UNCHANGED <<op, args, heap>>

Next ==
    \/ Asdict
    \/ Fromdict
    \/ Assoc
    \/ Has

Spec == Init /\ [][Next]_vars

\* ------------------------------------------------------------------ claims

Done(o) == pc = "done" /\ op = o

\* C1: the shallow round trip.  After asdict(x, recurse=False) without a
\* filter, fromdict(type(x), that mapping, recurse=False) returns an instance
\* of x's class whose every field equals x's; asdict(C(1, 2)) is
\* {x: 1, y: 2} and fromdict(C, {x: 1, y: 2}) is C(1, 2).
ShallowRoundTrip ==
    /\ (Done("asdict") /\ ~args.recurse /\ args.filter = "None") =>
          /\ result.ok
          /\ \A ignore_missing \in BOOLEAN :
                LET back == fromdict(args.inst.tag, result.val, FALSE, ignore_missing,
                                     "identity", "default")
                IN /\ back.ok
                   /\ back.val.tag = args.inst.tag
                   /\ \A i \in 1..Len(fields(args.inst.tag)) :
                         getattr(back.val, fields(args.inst.tag)[i].name)
                            = getattr(args.inst, fields(args.inst.tag)[i].name)
          /\ args.inst = C12 => result.val.items = RawC.items
    /\ (Done("fromdict") /\ args.cls = "C" /\ args.dct = RawC) => result = Ok(C12)

\* A shallow asdict of an instance holding a nested instance and a tuple.
ShallowRoundTripWitness ==
    /\ Done("asdict") /\ ~args.recurse /\ args.filter = "None"
    /\ args.inst = InstV("C", <<C12, TupleV(<<C12, IntV(1)>>)>>)
    /\ result.ok
    /\ result.val.items[1].items[2] = C12

\* d is the mapping of instance v with filter f applied to v's fields and
\* to the fields of every instance below v: held in a field, an element
\* of a list/tuple/set field, or a key or value of a mapping field.
RECURSIVE FilterApplied(_, _, _)
FilterApplied(v, d, f) ==
    LET kept == SelectSeq(fields(v.tag),
                          LAMBDA a : f = "None" \/ CallFilter(f, a, getattr(v, a.name)))
    IN /\ IsMapping(d)
       /\ Len(d.items) = Len(kept)
       /\ \A i \in 1..Len(kept) :
             LET w == getattr(v, kept[i].name)
                 c == d.items[i].items[2]
             IN /\ d.items[i].items[1] = StrV(kept[i].name)
                /\ has(w.tag) => FilterApplied(w, c, f)
                /\ isinstance(w, {"list", "tuple", "set"}) =>
                      /\ Len(c.items) = Len(w.items)
                      /\ \A j \in 1..Len(w.items) :
                            has(w.items[j].tag) => FilterApplied(w.items[j], c.items[j], f)
                /\ IsMapping(w) =>
                      /\ Len(c.items) = Len(w.items)
                      /\ \A j \in 1..Len(w.items) :
                            /\ has(w.items[j].items[1].tag) =>
                                  FilterApplied(w.items[j].items[1], c.items[j].items[1], f)
                            /\ has(w.items[j].items[2].tag) =>
                                  FilterApplied(w.items[j].items[2], c.items[j].items[2], f)

\* C2: with recurse=True the mapping asdict returns omits exactly the
\* fields the filter rejects, at the top level and in every nested instance.
FilterEveryLevel ==
    (Done("asdict") /\ args.recurse /\ result.ok) =>
        FilterApplied(args.inst, result.val, args.filter)

\* The options of the fromdict call, and per field i of the target class:
\* its declared type, its key in the source mapping, whether the source
\* holds the key, the raw value looked up, and the value of the field in
\* the instance returned.
FromdictOpts ==
    [recurse |-> args.recurse, ignore_missing |-> args.ignore_missing,
     rename |-> args.rename, union_discriminator |-> args.union_discriminator]
TypeOf(i) == fields(args.cls)[i].type
KeyOf(i) == CallRename(args.rename, fields(args.cls)[i].name)
Present(i) == \E j \in 1..Len(args.dct.items) : args.dct.items[j].items[1] = StrV(KeyOf(i))
RawOf(i) ==
    IF Present(i)
    THEN (CHOOSE p \in {args.dct.items[j] : j \in 1..Len(args.dct.items)} :
              p.items[1] = StrV(KeyOf(i))).items[2]
    ELSE NoneV
FieldOf(i) == result.val.items[i]
Deserialized(v, typ, i) == deserialize_val(v, typ, KeyOf(i), <<>>, KeyOf(i), FromdictOpts)

\* typ is optional-of-X: a union of X and the none type, in either order.
IsOptionalOf(typ) ==
    /\ typ.kind = "union" /\ Len(typ.params) = 2
    /\ \E k \in 1..2 : typ.params[k] = NoneTypeT /\ typ.params[3 - k] # NoneTypeT
Wrapped(typ) == IF typ.params[1] = NoneTypeT THEN typ.params[2] ELSE typ.params[1]

\* C3: with recurse=True a field typed optional-of-X, in either order of
\* the alternatives, holds none for the source value none and otherwise the
\* result of deserializing the source value against X.
OptionalHandling ==
    (Done("fromdict") /\ args.recurse /\ result.ok) =>
        \A i \in 1..Len(fields(args.cls)) :
            (IsOptionalOf(TypeOf(i)) /\ Present(i)) =>
                IF RawOf(i) = NoneV
                THEN FieldOf(i) = NoneV
                ELSE LET e == Deserialized(RawOf(i), Wrapped(TypeOf(i)), i)
                     IN e.ok => FieldOf(i) = e.val

\* Every field whose key the source holds deserializes on its own.
PresentFieldsFine ==
    \A i \in 1..Len(fields(args.cls)) :
        (Present(i) /\ args.recurse /\ TypeOf(i) # Untyped) =>
            Deserialized(RawOf(i), TypeOf(i), i).ok

\* C4: when the key of some field is absent from the source mapping (and
\* the fields present are well formed), fromdict with ignore_missing=False
\* fails with KeyError, and with ignore_missing=True returns an instance
\* holding none in each such field, whatever the field's declared type.
MissingKey ==
    (/\ Done("fromdict")
     /\ \E i \in 1..Len(fields(args.cls)) : ~Present(i)
     /\ PresentFieldsFine
     /\ ~init_rejects(args.cls, RawOf(1))) =>
        IF args.ignore_missing
        THEN /\ result.ok
             /\ \A i \in 1..Len(fields(args.cls)) : ~Present(i) => FieldOf(i) = NoneV
        ELSE ~result.ok /\ result.exc.type = "KeyError"

\* The container kind a list/set/tuple type declares ("" for another type).
DeclaredKind(typ) ==
    IF typ.kind \notin {"generic", "class"} THEN ""
    ELSE CASE typ.name \in {"List", "list"} -> "list"
           [] typ.name \in {"Set", "set"} -> "set"
           [] typ.name \in {"Tuple", "tuple"} -> "tuple"
           [] OTHER -> ""
IsMappingType(typ) ==
    \/ typ.kind = "generic" /\ typ.name = "Dict"
    \/ typ.kind = "class" /\ typ.name = "dict"
AsSet(seq) == {seq[j] : j \in 1..Len(seq)}

\* C5: with recurse=True a field declared list/set/tuple of T holds a
\* container of the declared kind whose elements are the source elements
\* deserialized against T (the source elements themselves when the type has
\* no parameter); a field declared a mapping of K to V holds a mapping of
\* the source keys and values deserialized against K and V, and the raw
\* mapping itself when the type has no parameters.
ContainerRebuild ==
    (Done("fromdict") /\ args.recurse /\ result.ok) =>
        \A i \in 1..Len(fields(args.cls)) :
            LET typ == TypeOf(i)
                raw == RawOf(i)
                got == FieldOf(i)
            IN /\ DeclaredKind(typ) # "" =>
                    LET src == Iter(raw).seq
                        want == [j \in 1..Len(src) |->
                                    IF typ.parameterized
                                    THEN deserialize_val(src[j], typ.params[1],
                                                         KeyOf(i) \o "[]", <<>>, KeyOf(i),
                                                         FromdictOpts).val
                                    ELSE src[j]]
                    IN /\ Iter(raw).ok
                       /\ got.tag = DeclaredKind(typ)
                       /\ IF DeclaredKind(typ) = "set"
                          THEN AsSet(got.items) = AsSet(want) /\ NoDup(got.items)
                          ELSE got.items = want
               /\ (IsMappingType(typ) /\ ~typ.parameterized) => got = raw
               /\ (IsMappingType(typ) /\ typ.parameterized) =>
                    LET K(k) == Deserialized(k, typ.params[1], i).val
                        V(k, v) == deserialize_val(v, typ.params[2], KeyOf(i) \o Str(k),
                                                   <<>>, KeyOf(i), FromdictOpts).val
                    IN /\ IsMapping(raw) /\ got.tag = "dict"
                       /\ \A p \in AsSet(got.items) : \E q \in AsSet(raw.items) :
                             /\ p.items[1] = K(q.items[1])
                             /\ p.items[2] = V(q.items[1], q.items[2])
                       /\ \A q \in AsSet(raw.items) : \E p \in AsSet(got.items) :
                             p.items[1] = K(q.items[1])

\* fromdict rebuilt a list and a set of C instances from lists of mappings.
ContainerRebuildWitness ==
    /\ Done("fromdict") /\ args.recurse /\ result.ok
    /\ args.cls = "DLst"
    /\ RawOf(1) = ListV(<<RawC, RawC>>)
    /\ FieldOf(1) = ListV(<<C12, C12>>)
    /\ FieldOf(2) = SetV(<<C12>>)

\* typ is a union of attrs-decorated classes that is no optional.
IsClassUnion(typ) ==
    /\ typ.kind = "union"
    /\ \A k \in 1..Len(typ.params) : has_type(typ.params[k])

\* C6: with recurse=True a field typed as a union of attrs-decorated
\* classes holds an instance of the class the discriminator returned for the
\* raw value, built from the raw value by the field walk; with the default
\* discriminator a union-typed value is passed through unchanged.
UnionDispatch ==
    (Done("fromdict") /\ args.recurse /\ result.ok) =>
        \A i \in 1..Len(fields(args.cls)) :
            LET typ == TypeOf(i)
                raw == RawOf(i)
            IN /\ (IsClassUnion(typ) /\ args.union_discriminator = "by_type") =>
                    LET chosen == CallDiscriminator("by_type", raw, typ)
                        built == _fromdict(chosen.typ.name, raw, <<KeyOf(i)>>, FromdictOpts)
                    IN /\ chosen.ok /\ chosen.typ \in {ClassT("B"), ClassT("C")}
                       /\ FieldOf(i).tag = chosen.typ.name
                       /\ built.ok /\ FieldOf(i) = built.val
               /\ (typ.kind = "union" /\ ~_is_optional(typ)
                   /\ args.union_discriminator = "default") => FieldOf(i) = raw

\* by_type chose B for one field and C for the other.
UnionDispatchWitness ==
    /\ Done("fromdict") /\ args.recurse /\ result.ok
    /\ args.cls = "DUni" /\ args.union_discriminator = "by_type"
    /\ RawOf(1) = RawB
    /\ FieldOf(1) = InstV("B", <<IntV(1), IntV(2)>>)
    /\ FieldOf(2) = InstV("C", <<IntV(2), NoneV>>)

\* The names of the keyword changes that name no field of class cls.
UnknownNames(cls) ==
    SelectSeq([j \in 1..Len(args.changes) |-> args.changes[j][1]],
              LAMBDA k : IndexOf(fields(cls), k, 1) = 0)

\* C7: assoc with a change that names no field of the instance's class
\* fails with AttrsAttributeNotFoundError whose argument is
\* '<name> is not an attrs attribute on <class>.'.
UnknownAttribute ==
    (Done("assoc") /\ UnknownNames(heap[args.inst].tag) # <<>>) =>
        /\ ~result.ok
        /\ result.exc.type = "AttrsAttributeNotFoundError"
        /\ result.exc.msg = UnknownNames(heap[args.inst].tag)[1]
                                \o " is not an attrs attribute on "
                                \o heap[args.inst].tag \o "."

\* C8: assoc leaves every field of the original as it was, whether it
\* returns or fails, for frozen classes too; when it returns, the result is
\* another object of the same class in which each changed field holds the
\* new value and every other field the original's.
AssocFrame ==
    [][(pc = "call" /\ op = "assoc") =>
          /\ heap'[args.inst] = heap[args.inst]
          /\ result'.ok =>
                LET new == result'.val.n
                    cls == heap[args.inst].tag
                IN /\ result'.val.tag = "ref"
                   /\ new # args.inst
                   /\ new \in 1..Len(heap')
                   /\ heap'[new].tag = cls
                   /\ \A j \in 1..Len(fields(cls)) :
                         LET hits == {c \in 1..Len(args.changes) :
                                         args.changes[c][1] = fields(cls)[j].name}
                         IN heap'[new].items[j] =
                               IF hits = {} THEN heap[args.inst].items[j]
                               ELSE args.changes[CHOOSE c \in hits : TRUE][2]]_vars

\* assoc changed a field of a frozen instance in the copy only.
AssocFrameWitness ==
    /\ Done("assoc") /\ result.ok
    /\ heap[1] = InstV("Fz", <<IntV(1), NoneV>>) /\ heap[1].tag \in Frozen
    /\ args.changes = << <<"y", IntV(2)>> >>
    /\ heap[result.val.n] = InstV("Fz", <<IntV(1), IntV(2)>>)

\* Per field i of the instance asdict converts: its value, whether the
\* filter keeps it, and the value stored for it in the mapping returned.
ValueOf(i) == args.inst.items[i]
Kept(i) ==
    \/ args.filter = "None"
    \/ /\ ~FilterRaises(args.filter, fields(args.inst.tag)[i], ValueOf(i))
       /\ CallFilter(args.filter, fields(args.inst.tag)[i], ValueOf(i))
StoredFor(i) ==
    (CHOOSE p \in AsSet(result.val.items) :
        p.items[1] = StrV(fields(args.inst.tag)[i].name)).items[2]
\* The elements of collection v, each instance among them converted.
ConvertedElems(v) ==
    [j \in 1..Len(v.items) |->
        IF has(v.items[j].tag)
        THEN asdict(v.items[j], TRUE, args.filter, args.dict_factory, FALSE).val
        ELSE v.items[j]]
\* Every kept field but i converts on its own.
OtherFieldsFine(i) ==
    \A j \in 1..Len(fields(args.inst.tag)) :
        /\ ~FilterRaises(args.filter, fields(args.inst.tag)[j], ValueOf(j))
        /\ (j # i /\ Kept(j)) =>
            asdict_value(ValueOf(j), TRUE, args.filter, args.dict_factory,
                         args.retain_collection_types).ok
IsCollection(v) == isinstance(v, {"tuple", "list", "set"})
\* A set holding an instance, to be kept a set: the instance becomes a
\* mapping, which no set can hold.
SetOfMappings(v) ==
    /\ args.retain_collection_types /\ v.tag = "set"
    /\ \E j \in 1..Len(v.items) : has(v.items[j].tag)

FieldOrder ==
    (Done("asdict") /\ args.dict_factory = "OrderedDict" /\ result.ok) =>
        [j \in 1..Len(result.val.items) |-> result.val.items[j].items[1]]
            = LET kept == SelectSeq([i \in 1..Len(fields(args.inst.tag)) |-> i],
                                    LAMBDA i : Kept(i))
              IN [j \in 1..Len(kept) |-> StrV(fields(args.inst.tag)[kept[j]].name)]

\* Both fields kept, in declaration order, at the top and in the nested mapping.
FieldOrderWitness ==
    /\ Done("asdict") /\ args.dict_factory = "OrderedDict" /\ result.ok
    /\ args.recurse /\ args.filter = "not_none"
    /\ args.inst = InstV("C", <<IntV(1), InstV("C", <<NoneV, IntV(1)>>)>>)
    /\ [j \in 1..Len(result.val.items) |-> result.val.items[j].items[1]]
          = <<StrV("x"), StrV("y")>>
    /\ Len(result.val.items[2].items[2].items) = 1

\* C11: has(cls) returns True exactly when cls carries __attrs_attrs__, an
\* empty field sequence included; for a class without the slot it returns
\* False and raises nothing; the call leaves the class, the arguments and every
\* instance as they were.
HasSlot ==
    [][(pc = "call" /\ op = "has") =>
          /\ result' = Ok(BoolV(args.cls \in DOMAIN ClassTable))
          /\ args.cls \notin DOMAIN ClassTable => result'.ok /\ result'.val.n = 0
          /\ heap' = heap /\ args' = args /\ op' = op]_vars

HasSlotWitness ==
    /\ Done("has") /\ args.cls = "E" /\ ClassTable["E"] = <<>>
    /\ result = Ok(BoolV(TRUE))

\* The first call of the filter that raises is the one for field 1 of the
\* converted instance, or the one for field 1 of the instance held in field 2.
FilterRaisesAtTop ==
    /\ args.filter \in RaisingFilters
    /\ Len(args.inst.items) = 2 /\ ValueOf(1) = NoneV
FilterRaisesNested ==
    /\ args.filter \in RaisingFilters /\ args.recurse
    /\ Len(args.inst.items) = 2 /\ ValueOf(1) = IntV(1)
    /\ ValueOf(2) = InstV("C", <<NoneV, IntV(1)>>)
\* Field 1 of the target class is a union that is no optional, so that
\* fromdict asks union_discriminator for the raw value of its key.
DiscriminatorCalled ==
    /\ args.recurse /\ Len(fields(args.cls)) = 2 /\ Present(1)
    /\ TypeOf(1).kind = "union" /\ ~_is_optional(TypeOf(1))

\* C12: an exception raised by the filter inside asdict, or by
\* union_discriminator inside fromdict, reaches the caller as it was raised,
\* TypeError included: same kind, same message, not wrapped or replaced.
CallbackErrorsUnmodified ==
    /\ (Done("asdict") /\ (FilterRaisesAtTop \/ FilterRaisesNested)) =>
          ~result.ok /\ result.exc = FilterExc(args.filter)
    /\ (Done("fromdict") /\ DiscriminatorCalled
          /\ args.union_discriminator \in RaisingDiscriminators) =>
          ~result.ok /\ result.exc = DiscriminatorExc(args.union_discriminator)

\* The lookup of every field's key succeeds.
LookupsFine == \A j \in 1..Len(fields(args.cls)) : Present(j) \/ args.ignore_missing
\* Field i is declared of a class whose constructor rejects the instance
\* fromdict assembles for it from the raw mapping under the field's key.
NestedInitFails(i) ==
    /\ args.recurse /\ LookupsFine
    /\ TypeOf(i).kind = "class" /\ TypeOf(i).name \in DOMAIN InitErrors
    /\ \A j \in 1..(i - 1) : Deserialized(RawOf(j), TypeOf(j), j).ok
    /\ LET n == _fromdict(TypeOf(i).name, RawOf(i), <<KeyOf(i)>>, FromdictOpts)
       IN ~n.ok /\ n.exc = InitExc(TypeOf(i).name)

\* C13: when the constructor of the target class, or of a nested attrs class
\* built during the recursion, raises, fromdict raises that same exception
\* (same kind, same message, TypeError included) and returns no instance.
ConstructionErrorsUnchanged ==
    Done("fromdict") =>
        /\ (LookupsFine /\ init_rejects(args.cls, RawOf(1))) =>
              ~result.ok /\ result.val = NoneV /\ result.exc = InitExc(args.cls)
        /\ \A i \in 1..Len(fields(args.cls)) :
              NestedInitFails(i) =>
                  /\ ~result.ok /\ result.val = NoneV
                  /\ result.exc = InitExc(TypeOf(i).name)

\* d is the mapping of the nested instance w: built by the caller's
\* dict_factory, holding the fields of w the caller's filter keeps, a tuple,
\* list or set among them stored as a list of as many elements, any other
\* plain value as it is.
NestedConverted(w, d) ==
    LET kept == SelectSeq(fields(w.tag),
                          LAMBDA a : \/ args.filter = "None"
                                     \/ CallFilter(args.filter, a, getattr(w, a.name)))
    IN /\ d.tag = args.dict_factory
       /\ Len(d.items) = Len(kept)
       /\ \A k \in 1..Len(kept) :
             LET u == getattr(w, kept[k].name)
                 c == d.items[k].items[2]
             IN /\ d.items[k].items[1] = StrV(kept[k].name)
                /\ IsCollection(u) => c.tag = "list" /\ c.items = u.items
                /\ u \in Atoms => c = u

====
